---- MODULE Spec2Model ----
(***************************************************************************)
(* Version vector of src/src/lib.rs: a vector of (id, counter) pairs kept  *)
(* sorted by id, with lookup, bump, in-place merge and a four-valued       *)
(* comparison.  A vector is modelled by its `inner` sequence; an entry is  *)
(* the pair <<id, counter>>.  Indexes are 1-based here, 0-based in the     *)
(* source, so `idx >= len` of the source reads `idx > Len(..)`.            *)
(* Option<T> is modelled as a sequence: None is <<>>, Some(c) is <<c>>.    *)
(* Ids and counters are the usize of the tests (VecTemplate), so counters  *)
(* are naturals.                                                           *)
(***************************************************************************)
EXTENDS Integers, Sequences, FiniteSets

\* ---------------------------------------------------------------- bounds
MaxId == 3
MaxCounter == 2
MaxLen == 3

Ids == 1..MaxId
Counters == 0..MaxCounter
Replica == {1, 2}

VARIABLES vv, call
vars == <<vv, call>>

\* ------------------------------------------------------- Ordering::eat
\* eat without the (Less, Greater) arm: only Greater after Less is a conflict
eat_one_arm(result, order) ==
  CASE order = "Less" /\ result = "Equal" -> "Less"
    [] order = "Greater" /\ result = "Equal" -> "Greater"
    [] order = "Greater" /\ result = "Less" -> "Concurrent"
    [] OTHER -> result

eat(result, order) ==
  CASE order = "Less" /\ result = "Equal" -> "Less"
    [] order = "Greater" /\ result = "Equal" -> "Greater"
    [] order = "Greater" /\ result = "Less" -> "Concurrent"
    [] order = "Less" /\ result = "Greater" -> "Concurrent"
    [] OTHER -> result

\* counter comparison that never answers Equal
counter_cmp_no_equal(l, r) ==
  IF l <= r THEN "Less" ELSE "Greater"

\* T::cmp of two counters
counter_cmp(l, r) ==
  IF l < r THEN "Less" ELSE IF l > r THEN "Greater" ELSE "Equal"

\* the right counter overwrites the left one
max_takes_right(l, r) ==
  r

\* cmp::max
max(l, r) ==
  IF r >= l THEN r ELSE l

\* Vec::insert(idx, e), idx 1-based
insert(inner, idx, e) ==
  SubSeq(inner, 1, idx - 1) \o <<e>> \o SubSeq(inner, idx, Len(inner))

\* ------------------------------------------------------ VersionVec::new
new == <<>>

\* ------------------------------------------------- VersionVec::from_vec
\* v.sort_by(|a, b| a.0.cmp(&b.0)) is a stable sort on the id alone: each
\* element goes behind every element whose id is not greater than its own.
RECURSIVE sort_by(_)
sort_by(v) ==
  IF v = <<>> THEN <<>>
  ELSE LET s == sort_by(SubSeq(v, 1, Len(v) - 1))
           e == v[Len(v)]
           k == Cardinality({i \in DOMAIN s : s[i][1] <= e[1]})
       IN insert(s, k + 1, e)

from_vec(v) ==
  sort_by(v)

\* ------------------------------------------------------ VersionVec::get
\* a scan that gives up at the first entry that is not the one looked up
get_scan_first_only(inner, i, id) ==
  IF i > Len(inner) THEN <<>>
  ELSE IF inner[i][1] = id THEN <<inner[i][2]>>
  ELSE <<>>

RECURSIVE get_scan(_, _, _)
get_scan(inner, i, id) ==
  IF i > Len(inner) THEN <<>>
  ELSE IF inner[i][1] = id THEN <<inner[i][2]>>
  ELSE IF inner[i][1] > id THEN <<>>
  ELSE get_scan(inner, i + 1, id)

get(inner, id) ==
  get_scan(inner, 1, id)

\* ------------------------------------------------- VersionVec::bump_for
\* position with > in place of >=: an id already stored is passed over
position_gt(inner, id) ==
  LET S == {i \in DOMAIN inner : inner[i][1] > id}
  IN IF S = {} THEN 0 ELSE CHOOSE i \in S : \A j \in S : i <= j

\* iter().position(|value| value.0 >= id); 0 stands for None
position(inner, id) ==
  LET S == {i \in DOMAIN inner : inner[i][1] >= id}
  IN IF S = {} THEN 0 ELSE CHOOSE i \in S : \A j \in S : i <= j

\* bump_for that appends a new id instead of inserting it in place
bump_for_push(inner, id) ==
  LET idx == position(inner, id)
  IN IF idx # 0 /\ inner[idx][1] = id
     THEN [inner EXCEPT ![idx] = <<id, inner[idx][2] + 1>>]
     ELSE Append(inner, <<id, 1>>)

bump_for(inner, id) ==
  LET idx == position(inner, id)
  IN IF idx = 0 THEN Append(inner, <<id, 1>>)
     ELSE IF inner[idx][1] = id
          THEN [inner EXCEPT ![idx] = <<id, inner[idx][2] + 1>>]
          ELSE insert(inner, idx, <<id, 1>>)

\* ---------------------------------------------------- VersionVec::merge
\* merge that stops when the receiver is exhausted, without push_all
RECURSIVE merge_loop_no_tail(_, _, _, _)
merge_loop_no_tail(inner, other, self_idx, other_idx) ==
  IF self_idx > Len(inner) \/ other_idx > Len(other)
  THEN inner
  ELSE LET left == inner[self_idx]
           right == other[other_idx]
       IN IF left[1] = right[1]
          THEN merge_loop_no_tail([inner EXCEPT ![self_idx] = <<left[1], max(left[2], right[2])>>],
                                  other, self_idx + 1, other_idx + 1)
          ELSE IF left[1] < right[1]
          THEN merge_loop_no_tail(inner, other, self_idx + 1, other_idx)
          ELSE merge_loop_no_tail(insert(inner, self_idx, right), other,
                                  self_idx + 1, other_idx + 1)

RECURSIVE merge_loop(_, _, _, _)
merge_loop(inner, other, self_idx, other_idx) ==
  IF self_idx > Len(inner)
  THEN inner \o SubSeq(other, other_idx, Len(other))
  ELSE IF other_idx > Len(other)
  THEN inner
  ELSE LET left == inner[self_idx]
           right == other[other_idx]
       IN IF left[1] = right[1]
          THEN merge_loop([inner EXCEPT ![self_idx] = <<left[1], max(left[2], right[2])>>],
                          other, self_idx + 1, other_idx + 1)
          ELSE IF left[1] < right[1]
          THEN merge_loop(inner, other, self_idx + 1, other_idx)
          ELSE merge_loop(insert(inner, self_idx, right), other,
                          self_idx + 1, other_idx + 1)

merge(inner, other) ==
  merge_loop(inner, other, 1, 1)

\* --------------------------------------------------- VersionVec::merged
\* merged that returns the clone without merging into it
merged_clone_only(inner, other) ==
  inner

merged(inner, other) ==
  LET result == inner
  IN merge(result, other)

\* ------------------------------------------------------ VersionVec::cmp
\* the residual test without the zero check: any remaining entry counts
rest_nonempty(inner, idx) ==
  idx <= Len(inner)

\* inner[idx..].iter().position(|v| v.1 > T::zero()).is_some()
rest_has_nonzero(inner, idx) ==
  \E i \in idx..Len(inner) : inner[i][2] > 0

RECURSIVE cmp_loop(_, _, _, _, _)
cmp_loop(inner, other, self_idx, other_idx, result) ==
  IF self_idx > Len(inner)
  THEN IF other_idx = Len(other) + 1
       THEN result
       ELSE IF rest_has_nonzero(other, other_idx)
            THEN eat(result, "Less")
            ELSE result
  ELSE IF other_idx > Len(other)
  THEN IF rest_has_nonzero(inner, self_idx)
       THEN eat(result, "Greater")
       ELSE result
  ELSE LET left == inner[self_idx]
           right == other[other_idx]
           deltas == IF left[1] < right[1]
                     THEN <<1, 0, IF left[2] # 0 THEN "Greater" ELSE "Equal">>
                     ELSE IF left[1] > right[1]
                     THEN <<0, 1, IF right[2] # 0 THEN "Less" ELSE "Equal">>
                     ELSE <<1, 1, counter_cmp(left[2], right[2])>>
           eaten == IF deltas[3] # "Equal" THEN eat(result, deltas[3]) ELSE result
       IN IF eaten = "Concurrent"
          THEN eaten
          ELSE cmp_loop(inner, other, self_idx + deltas[1], other_idx + deltas[2], eaten)

cmp(inner, other) ==
  cmp_loop(inner, other, 1, 1, "Equal")

\* ------------------------------------------------------------ the calls
\* `call` records the last call made: the receiver, the argument, the
\* receiver's inner before the call and what the call returned.
NoCall ==
  [op |-> "init", recv |-> 0, arg |-> 0, id |-> 0, input |-> <<>>,
   pre |-> <<>>, got |-> <<>>, ord |-> "Equal", out |-> <<>>]

\* input lists of from_vec: any order, ids may repeat
Inputs ==
  UNION {[1..n -> Ids \X Counters] : n \in 0..MaxLen}

\* input lists in which no id occurs twice
DupFreeInputs ==
  {v \in UNION {[1..n -> Ids \X Counters] : n \in 0..MaxId} :
     \A i, j \in DOMAIN v : v[i][1] = v[j][1] => i = j}

\* let v = VersionVec::from_vec(input)
FromVec(r, input) ==
  /\ vv' = [vv EXCEPT ![r] = from_vec(input)]
  /\ call' = [NoCall EXCEPT !.op = "from_vec", !.recv = r, !.input = input]

\* vv[r].get(id)
Get(r, id) ==
  /\ call' = [NoCall EXCEPT !.op = "get", !.recv = r, !.id = id,
                            !.pre = vv[r], !.got = get(vv[r], id)]
  /\ UNCHANGED vv

\* vv[r].bump_for(id); the counter is capped at MaxCounter
BumpFor(r, id) ==
  /\ \A i \in DOMAIN vv[r] : vv[r][i][1] = id => vv[r][i][2] < MaxCounter
  /\ vv' = [vv EXCEPT ![r] = bump_for(vv[r], id)]
  /\ call' = [NoCall EXCEPT !.op = "bump_for", !.recv = r, !.id = id,
                            !.pre = vv[r]]

\* vv[r].merge(&vv[s])
Merge(r, s) ==
  /\ r # s
  /\ vv' = [vv EXCEPT ![r] = merge(vv[r], vv[s])]
  /\ call' = [NoCall EXCEPT !.op = "merge", !.recv = r, !.arg = s,
                            !.pre = vv[r]]

\* vv[r].merged(&vv[s])
Merged(r, s) ==
  /\ r # s
  /\ call' = [NoCall EXCEPT !.op = "merged", !.recv = r, !.arg = s,
                            !.pre = vv[r], !.out = merged(vv[r], vv[s])]
  /\ UNCHANGED vv

\* vv[r].cmp(&vv[s])
Cmp(r, s) ==
  /\ r # s
  /\ call' = [NoCall EXCEPT !.op = "cmp", !.recv = r, !.arg = s,
                            !.pre = vv[r], !.ord = cmp(vv[r], vv[s])]
  /\ UNCHANGED vv

\* ------------------------------------------------------- specifications
\* Spec: two vectors built by from_vec from lists without repeated ids,
\* then any calls.  Init draws every ordered pair of vectors, so the calls
\* are made on vector 1 with vector 2 as the argument.
Init ==
  /\ vv \in [Replica -> {from_vec(v) : v \in DupFreeInputs}]
  /\ call = NoCall

Next ==
  \/ \E id \in Ids : Get(1, id)
  \/ \E id \in Ids : BumpFor(1, id)
  \/ Merge(1, 2)
  \/ Merged(1, 2)
  \/ Cmp(1, 2)

Spec == Init /\ [][Next]_vars

\* SpecNew: two vectors built from new() by bump_for and merge alone.
InitNew ==
  /\ vv = [r \in Replica |-> new]
  /\ call = NoCall

NextNew ==
  \/ \E r \in Replica, id \in Ids : BumpFor(r, id)
  \/ \E r, s \in Replica : Merge(r, s)

SpecNew == InitNew /\ [][NextNew]_vars

\* SpecFromVec: from_vec applied to any input list.
NextFromVec ==
  \E input \in Inputs : FromVec(1, input)

SpecFromVec == InitNew /\ [][NextFromVec]_vars

\* --------------------------------------------------- reading a vector
\* the entries of a vector, as a set
Entries(v) == {v[i] : i \in DOMAIN v}

\* the ids of a vector
IdsOf(v) == {v[i][1] : i \in DOMAIN v}

\* strictly ascending by id: sorted, and no id twice
StrictlyAscending(v) ==
  \A i, j \in DOMAIN v : i < j => v[i][1] < v[j][1]

\* the counter of id in v, 0 when v has no entry for id
ValueAt(v, id) ==
  IF id \in IdsOf(v) THEN (CHOOSE e \in Entries(v) : e[1] = id)[2] ELSE 0

\* the causal order of two vectors over their get-or-zero values
CausalOrder(a, b) ==
  LET gt == \E id \in Ids : ValueAt(a, id) > ValueAt(b, id)
      lt == \E id \in Ids : ValueAt(a, id) < ValueAt(b, id)
  IN IF gt /\ lt THEN "Concurrent"
     ELSE IF gt THEN "Greater"
     ELSE IF lt THEN "Less"
     ELSE "Equal"

\* v with the entry (id, 0) added at its sorted position
WithZero(v, id) ==
  LET k == Cardinality({i \in DOMAIN v : v[i][1] < id})
  IN SubSeq(v, 1, k) \o <<<<id, 0>>>> \o SubSeq(v, k + 1, Len(v))

\* the comparison seen from the other side
Flip(ord) ==
  CASE ord = "Less" -> "Greater"
    [] ord = "Greater" -> "Less"
    [] OTHER -> ord

\* the receiver before the last call and the argument of the last call
A == call.pre
B == vv[call.arg]

\* ---------------------------------------------------------------- claims
\* C1: merged(A, B), and A after A.merge(B), holds exactly the ids of A or
\* of B, each once, and at each the larger of the two get-or-zero counters.
IsJoin(m, a, b) ==
  /\ IdsOf(m) = IdsOf(a) \cup IdsOf(b)
  /\ Len(m) = Cardinality(IdsOf(m))
  /\ \A id \in IdsOf(m) : ValueAt(m, id) = max(ValueAt(a, id), ValueAt(b, id))

C1_MergeIsMax ==
  /\ call.op = "merge" => IsJoin(vv[call.recv], A, B)
  /\ call.op = "merged" => IsJoin(call.out, A, B)

C1_Witness ==
  /\ call.op = "merge"
  /\ \E i, j \in DOMAIN B : i < j /\ B[i][1] \notin IdsOf(A) /\ B[j][1] \in IdsOf(A)
                            /\ B[j][2] > ValueAt(A, B[j][1])
  /\ \E id \in IdsOf(A) : id \notin IdsOf(B)

\* C2: A.cmp(B) is the causal order of A and B over get-or-zero values.
C2_CmpIsCausalOrder ==
  call.op = "cmp" => call.ord = CausalOrder(A, B)

C2_Witness ==
  /\ call.op = "cmp"
  /\ call.ord = "Concurrent"
  /\ \E id \in IdsOf(A) : id \notin IdsOf(B) /\ ValueAt(A, id) = 0
  /\ Len(B) > 1

\* C3: built from new() by bump_for and merge, every vector is strictly
\* ascending by id.
C3_SortedFromNew ==
  \A r \in Replica : StrictlyAscending(vv[r])

C3_Witness ==
  /\ call.op = "merge"
  /\ Len(vv[call.recv]) = MaxId
  /\ Len(call.pre) = 1
  /\ call.pre[1][1] \notin {1, MaxId}

\* C4: from_vec returns a vector that is sorted by id and holds no id twice,
\* whatever its input list.
C4_FromVecSortedNoDup ==
  call.op = "from_vec" => StrictlyAscending(vv[call.recv])

\* C5: B.cmp(A) is A.cmp(B) seen from the other side.
C5_CmpAntisymmetric ==
  call.op = "cmp" => cmp(B, A) = Flip(call.ord)

C5_Witness ==
  /\ call.op = "cmp"
  /\ call.ord = "Less"
  /\ Len(A) > Len(B)
  /\ IdsOf(A) # IdsOf(B)

\* C6: merged(A, B) and merged(B, A) are the same vector.
C6_MergeCommutes ==
  call.op = "merged" =>
    /\ Entries(call.out) = Entries(merged(B, A))
    /\ call.out = merged(B, A)

C6_Witness ==
  /\ call.op = "merged"
  /\ \E id \in IdsOf(A) \cap IdsOf(B) : ValueAt(A, id) # ValueAt(B, id)
  /\ \E id \in IdsOf(A) : id \notin IdsOf(B)
  /\ \E id \in IdsOf(B) : id \notin IdsOf(A)

\* C7: after bump_for(id), get(id) is the previous get(id) or 0, plus one,
\* and every other entry is there exactly as before.
C7_BumpAddsOne ==
  call.op = "bump_for" =>
    LET post == vv[call.recv] IN
    /\ get(post, call.id) = <<ValueAt(A, call.id) + 1>>
    /\ {e \in Entries(post) : e[1] # call.id} = {e \in Entries(A) : e[1] # call.id}
    /\ Len(post) = Cardinality(IdsOf(A) \cup {call.id})

C7_Witness ==
  /\ call.op = "bump_for"
  /\ call.id \notin IdsOf(A)
  /\ \E i, j \in IdsOf(A) : i < call.id /\ call.id < j

\* C8: an entry (id, 0) added to A or to B for an absent id leaves A.cmp(B)
\* as it was; an all-zero B compares as the empty vector does.
C8_AbsenceIsZero ==
  call.op = "cmp" =>
    /\ \A id \in Ids \ IdsOf(A) : cmp(WithZero(A, id), B) = call.ord
    /\ \A id \in Ids \ IdsOf(B) : cmp(A, WithZero(B, id)) = call.ord
    /\ (\A e \in Entries(B) : e[2] = 0) => call.ord = cmp(A, new)
    /\ (\A e \in Entries(A) : e[2] = 0) => call.ord = cmp(new, B)

C8_Witness ==
  /\ call.op = "cmp"
  /\ call.ord = "Greater"
  /\ B # <<>>
  /\ \A e \in Entries(B) : e[2] = 0
  /\ \E id \in Ids : id \notin IdsOf(A)

\* C9: get(id) is Some(c) exactly when the vector holds (id, c) and None
\* exactly when it holds no entry for id; the vector is left as it was.
C9_GetFindsEntry ==
  call.op = "get" =>
    /\ \A c \in Counters : call.got = <<c>> <=> <<call.id, c>> \in Entries(A)
    /\ call.got = <<>> <=> call.id \notin IdsOf(A)
    /\ vv[call.recv] = A

C9_Witness ==
  /\ call.op = "get"
  /\ call.got = <<>>
  /\ \E i, j \in IdsOf(A) : i < call.id /\ call.id < j

\* C10: A.cmp(B) is Less or Equal exactly when merged(A, B).cmp(B) is Equal,
\* and merged(A, B) compares Greater or Equal to both A and B.
C10_MergeIsJoinOfOrder ==
  call.op = "merged" =>
    /\ cmp(A, B) \in {"Less", "Equal"} <=> cmp(call.out, B) = "Equal"
    /\ cmp(call.out, A) \in {"Greater", "Equal"}
    /\ cmp(call.out, B) \in {"Greater", "Equal"}

C10_Witness ==
  /\ call.op = "merged"
  /\ cmp(A, B) = "Concurrent"
  /\ cmp(call.out, A) = "Greater"
  /\ cmp(call.out, B) = "Greater"

====
